---------------------------- MODULE Spec2Model ----------------------------
(***************************************************************************)
(* A model of convert.py, the converter of the Heroku JSON hyper-schema    *)
(* into one OpenAPI document per service.                                  *)
(*                                                                         *)
(* Text that the program inspects character by character (hrefs, titles,   *)
(* relation names, resource names) is held as a sequence of one-character  *)
(* strings.  A '$ref' value is held as the sequence of its '/'-separated   *)
(* segments, i.e. as the result of str.split('/').  Python dictionaries    *)
(* that the program aliases are objects of a heap, addressed by number.    *)
(***************************************************************************)
EXTENDS Integers, Sequences, FiniteSets, TLC

(***************************************************************************)
(* Characters and elementary string functions.                             *)
(***************************************************************************)
Lowers == <<"a","b","c","d","e","f","g","h","i","j","k","l","m",
            "n","o","p","q","r","s","t","u","v","w","x","y","z">>

Uppers == <<"A","B","C","D","E","F","G","H","I","J","K","L","M",
            "N","O","P","Q","R","S","T","U","V","W","X","Y","Z">>

Digits == {"0","1","2","3","4","5","6","7","8","9"}

Range(f) == {f[i] : i \in DOMAIN f}

\* the class [a-zA-Z0-9_] of the regular expression in sanitize_name
WordChars == Range(Lowers) \cup Range(Uppers) \cup Digits \cup {"_"}

\* str.upper and str.lower on one character
UpperChar(c) ==
    IF c \in Range(Lowers) THEN Uppers[CHOOSE i \in DOMAIN Lowers : Lowers[i] = c] ELSE c

LowerChar(c) ==
    IF c \in Range(Uppers) THEN Lowers[CHOOSE i \in DOMAIN Uppers : Uppers[i] = c] ELSE c

\* str.lower
lower(s) == [i \in DOMAIN s |-> LowerChar(s[i])]

\* str.capitalize: first character upper case, the rest lower case
capitalize(w) ==
    [i \in DOMAIN w |-> IF i = 1 THEN UpperChar(w[i]) ELSE LowerChar(w[i])]

RECURSIVE Concat(_)
\* "".join(words)
Concat(words) ==
    IF words = <<>> THEN <<>> ELSE Head(words) \o Concat(Tail(words))

\* str.split(sep) for a one-character separator: the text between one
\* separator (or the start) and the next (or the end)
split(s, sep) ==
    LET at == {i \in DOMAIN s : s[i] = sep}
        Nth(k) == IF k = 0 THEN 0
                  ELSE IF k > Cardinality(at) THEN Len(s) + 1
                  ELSE CHOOSE p \in at : Cardinality({q \in at : q <= p}) = k
    IN [k \in 1..(Cardinality(at) + 1) |-> SubSeq(s, Nth(k - 1) + 1, Nth(k) - 1)]

RECURSIVE join(_, _)
\* sep.join(words)
join(words, sep) ==
    IF Len(words) <= 1 THEN Concat(words)
    ELSE Head(words) \o sep \o join(Tail(words), sep)

\* str.replace(c, '') for a one-character c
remove(s, c) == SelectSeq(s, LAMBDA x : x # c)

RECURSIVE lstrip(_, _)
lstrip(s, c) == IF s # <<>> /\ Head(s) = c THEN lstrip(Tail(s), c) ELSE s

RECURSIVE rstrip(_, _)
rstrip(s, c) ==
    IF s # <<>> /\ s[Len(s)] = c THEN rstrip(SubSeq(s, 1, Len(s) - 1), c) ELSE s

\* str.strip(c)
strip(s, c) == rstrip(lstrip(s, c), c)

\* urllib.parse.unquote on the escapes that occur in the hrefs: %23 is '#',
\* %2F is '/', %28 and %29 are the parentheses, %2D is '-'.
\* "" stands for an escape that is not one of these
PercentCode(a, b) ==
    CASE a = "2" /\ b = "3" -> "#"
      [] a = "2" /\ b \in {"F", "f"} -> "/"
      [] a = "2" /\ b = "8" -> "("
      [] a = "2" /\ b = "9" -> ")"
      [] a = "2" /\ b \in {"D", "d"} -> "-"
      [] OTHER -> ""

\* an escape starts at i; the two characters after a '%' that starts an
\* escape are hexadecimal digits, so no escape starts inside another
unquote(s) ==
    LET Escape(i) == i >= 1 /\ i + 2 <= Len(s) /\ s[i] = "%"
                     /\ PercentCode(s[i + 1], s[i + 2]) # ""
        decoded == [i \in DOMAIN s |->
                       IF Escape(i) THEN PercentCode(s[i + 1], s[i + 2])
                       ELSE IF Escape(i - 1) \/ Escape(i - 2) THEN ""
                       ELSE s[i]]
    IN SelectSeq(decoded, LAMBDA c : c # "")

(***************************************************************************)
(* sanitize_name                                                           *)
(***************************************************************************)
sanitize_name(name, cap) ==
    LET subst == [i \in DOMAIN name |->
                     IF name[i] \in WordChars THEN name[i] ELSE "_"]
        stripped == strip(subst, "_")
        words == split(stripped, "_")
    IN IF cap THEN Concat([i \in DOMAIN words |-> capitalize(words[i])])
       ELSE stripped

(***************************************************************************)
(* The path parameterizer: repl and the re.sub call that drives it.        *)
(***************************************************************************)
\* the descriptor appended by repl
PathParam(param_name, base_name, resource_context) ==
    [name |-> param_name, in |-> "path", required |-> TRUE,
     schema |-> [type |-> "string"],
     description |-> <<base_name, resource_context>>]

\* a repl without the test of line 160
replAlwaysAppends(pointer, path_params) ==
    LET segs == split(pointer, "/")
        base_name == remove(remove(segs[Len(segs)], ")"), "(")
        resource_context == IF Len(segs) > 2 THEN segs[3] ELSE base_name
        param_name == sanitize_name(resource_context \o <<"_">> \o base_name, FALSE)
    IN [text |-> <<"{">> \o param_name \o <<"}">>,
        params |-> Append(path_params, PathParam(param_name, base_name, resource_context))]

\* one call of repl on a matched pointer: the replacement text and the
\* parameter list after the call
repl(pointer, path_params) ==
    LET segs == split(pointer, "/")
        base_name == remove(remove(segs[Len(segs)], ")"), "(")
        resource_context == IF Len(segs) > 2 THEN segs[3] ELSE base_name
        param_name == sanitize_name(resource_context \o <<"_">> \o base_name, FALSE)
        known == \E i \in DOMAIN path_params : path_params[i].name = param_name
    IN [text |-> <<"{">> \o param_name \o <<"}">>,
        params |-> IF known THEN path_params
                   ELSE Append(path_params,
                               PathParam(param_name, base_name, resource_context))]

\* the least element of a set of positions, or 0
First(S) == IF S = {} THEN 0 ELSE CHOOSE i \in S : \A j \in S : i <= j

\* the position of the first ')' at or after i, or 0
FirstClose(s, i) == First({j \in i..Len(s) : s[j] = ")"})

\* the end of a match of {\(([^)]+)\)} that starts at i, or 0
MatchEnd(s, i) ==
    IF i + 1 <= Len(s) /\ s[i] = "{" /\ s[i + 1] = "("
    THEN LET j == FirstClose(s, i + 2)
         IN IF j >= i + 3 /\ j + 1 <= Len(s) /\ s[j + 1] = "}" THEN j + 1 ELSE 0
    ELSE 0

\* re.sub from position i on: the text up to the leftmost match is kept,
\* the match is replaced by what repl returns, and the scan goes on after it
RECURSIVE SubFrom(_, _, _, _)
SubFrom(s, i, out, path_params) ==
    LET m == First({k \in i..Len(s) : MatchEnd(s, k) # 0})
    IN IF m = 0 THEN [path |-> out \o SubSeq(s, i, Len(s)), params |-> path_params]
       ELSE LET e == MatchEnd(s, m)
                r == repl(SubSeq(s, m + 2, e - 2), path_params)
            IN SubFrom(s, e + 1, out \o SubSeq(s, i, m - 1) \o r.text, r.params)

\* lines 148-167: the rewritten path of a link and its parameter list
Parameterize(href) == SubFrom(unquote(href), 1, <<>>, <<>>)

(***************************************************************************)
(* map_rel_to_sql_verb                                                     *)
(***************************************************************************)
R_instances == <<"i","n","s","t","a","n","c","e","s">>
R_self      == <<"s","e","l","f">>
R_create    == <<"c","r","e","a","t","e">>
R_update    == <<"u","p","d","a","t","e">>
R_destroy   == <<"d","e","s","t","r","o","y">>
R_delete    == <<"d","e","l","e","t","e">>
R_exec      == <<"e","x","e","c">>
R_untitled  == <<"u","n","t","i","t","l","e","d">>

\* a classifier that knows destroy but not its synonym delete
map_rel_without_delete(rel) ==
    IF rel \in {R_instances, R_self} THEN "select"
    ELSE IF rel = R_create THEN "insert"
    ELSE IF rel = R_update THEN "update"
    ELSE IF rel = R_destroy THEN "delete"
    ELSE "exec"

map_rel_to_sql_verb(rel) ==
    IF rel \in {R_instances, R_self} THEN "select"
    ELSE IF rel = R_create THEN "insert"
    ELSE IF rel = R_update THEN "update"
    ELSE IF rel \in {R_destroy, R_delete} THEN "delete"
    ELSE "exec"

(***************************************************************************)
(* Dictionaries whose insertion order the program relies on are sequences  *)
(* of [key, value] pairs.                                                  *)
(***************************************************************************)
Keys(d) == {d[i].key : i \in DOMAIN d}

Has(d, k) == \E i \in DOMAIN d : d[i].key = k

Get(d, k) == d[CHOOSE i \in DOMAIN d : d[i].key = k].value

\* d[k] = v: an existing key keeps its place
Put(d, k, v) ==
    IF Has(d, k)
    THEN [i \in DOMAIN d |-> IF d[i].key = k THEN [key |-> k, value |-> v] ELSE d[i]]
    ELSE Append(d, [key |-> k, value |-> v])

(***************************************************************************)
(* Constants of the program.                                               *)
(***************************************************************************)
PROVIDER_NAME == "heroku"

\* the entries of RESOURCE_SERVICE_MAP for the resources of the inputs below
RESOURCE_SERVICE_MAP ==
    ("app" :> "apps") @@ ("team-app" :> "apps") @@ ("build" :> "builds")
    @@ ("default" :> "misc")

get_service_name_for_resource(resource_name) ==
    IF resource_name \in DOMAIN RESOURCE_SERVICE_MAP
    THEN RESOURCE_SERVICE_MAP[resource_name] ELSE "misc"

\* the keys clean_schema_object deletes
invalid_keys ==
    {"links", "definitions", "stability", "strictProperties", "$schema", "title", "example"}

\* the spelling of the names that the program reads character by character
Chars ==
    ("app" :> <<"a","p","p">>) @@ ("team-app" :> <<"t","e","a","m","-","a","p","p">>)
    @@ ("build" :> <<"b","u","i","l","d">>)

(***************************************************************************)
(* The state.                                                              *)
(*   schema_file     the content of schema.json; the program never writes  *)
(*                   it                                                    *)
(*   heap            the dictionaries in memory that carry schemas: those  *)
(*                   of heroku_schema after json.load, and the copies the  *)
(*                   resolver makes.  A schema object is                   *)
(*                   [ref, bad, items, anyOf]: the segments of its '$ref'  *)
(*                   (<<>>: no such key), the denylisted keys it holds,    *)
(*                   the object under its key 'items' (0: none) and the    *)
(*                   objects of the list under its key 'anyOf'             *)
(*   service_specs   the dictionary service name -> document               *)
(*   pc, res, svc    where process_heroku_schema stands: the phase, the    *)
(*                   resource the first loop is at, the service the second  *)
(*                   loop is at                                            *)
(*   stack           the pending calls of rewrite_refs_recursive           *)
(*   runs            how many further resolutions of a finished document   *)
(*                   were run                                              *)
(***************************************************************************)
VARIABLES schema_file, heap, service_specs, pc, res, svc, stack, runs

vars == <<schema_file, heap, service_specs, pc, res, svc, stack, runs>>

\* heroku_schema: the objects that came from the file, as they are now
InputIds == DOMAIN schema_file.objects

heroku_schema == [o \in InputIds |-> heap[o]]

Definitions == schema_file.definitions

\* heroku_schema['definitions'][name], as the index of the resource, or 0
ResourceIndex(name) ==
    IF \E i \in DOMAIN Definitions : Definitions[i].name = name
    THEN CHOOSE i \in DOMAIN Definitions : Definitions[i].name = name
    ELSE 0

(***************************************************************************)
(* create_base_spec.  Of the document only the parts that carry schemas or *)
(* that later code reads are kept: paths, components.schemas and           *)
(* components.x-stackQL-resources (absent until it is assigned).           *)
(***************************************************************************)
create_base_spec(service_name) ==
    [paths |-> <<>>, schemas |-> <<>>, resources |-> <<>>, indexed |-> FALSE]

(***************************************************************************)
(* The body of the loop over a resource's links (lines 147-201).           *)
(***************************************************************************)
M_post == <<"p","o","s","t">>
M_delete == <<"d","e","l","e","t","e">>

Operation(service_name, resource_name, link) ==
    LET p == Parameterize(link.href)
        method == lower(link.method)
        op_title == sanitize_name(IF link.title # <<>> THEN link.title[1]
                                  ELSE IF link.rel # <<>> THEN link.rel[1]
                                  ELSE R_untitled, TRUE)
        status_code == IF method = M_post /\ link.rel = <<R_create>> THEN "201"
                       ELSE IF method = M_delete THEN "204" ELSE "200"
        description == IF status_code = "204" THEN "No Content"
                       ELSE IF status_code = "201" THEN "Created"
                       ELSE "Successful operation"
    IN [path |-> p.path,
        method |-> method,
        operation |->
          [operationId |-> sanitize_name(Chars[resource_name], FALSE) \o op_title,
           tags |-> <<service_name>>,
           parameters |-> p.params,
           responses |-> [code |-> status_code, description |-> description,
                          schema |-> IF link.targetSchema # 0 /\ status_code # "204"
                                     THEN link.targetSchema ELSE 0],
           resource |-> resource_name,
           method |-> op_title,
           verb |-> map_rel_to_sql_verb(IF link.rel # <<>> THEN link.rel[1] ELSE R_exec),
           requestBody |-> link.schema]]

\* lines 200-201
StoreOperation(spec, o) ==
    LET methods == IF Has(spec.paths, o.path) THEN Get(spec.paths, o.path) ELSE <<>>
    IN [spec EXCEPT !.paths = Put(spec.paths, o.path, Put(methods, o.method, o.operation))]

RECURSIVE AssembleLinks(_, _, _, _)
AssembleLinks(spec, service_name, resource_name, links) ==
    IF links = <<>> THEN spec
    ELSE AssembleLinks(StoreOperation(spec, Operation(service_name, resource_name, Head(links))),
                       service_name, resource_name, Tail(links))

\* lines 138-201 for one resource
AssembleOne(specs, h, resource_def) ==
    LET service_name == get_service_name_for_resource(resource_def.name)
        specs1 == IF Has(specs, service_name) THEN specs
                  ELSE Put(specs, service_name, create_base_spec(service_name))
    IN IF "links" \notin h[resource_def.body].bad THEN specs1
       ELSE Put(specs1, service_name,
                AssembleLinks(Get(specs1, service_name), service_name,
                              resource_def.name, resource_def.links))

(***************************************************************************)
(* clean_schema_object.  The keys of invalid_keys are deleted from the     *)
(* object; the call on a dictionary value recurses, the call on a list     *)
(* value returns at once (lines 71-72), so the elements of a list are not  *)
(* looked at.                                                              *)
(***************************************************************************)
RECURSIVE clean_schema_object(_, _)
clean_schema_object(h, o) ==
    LET h1 == [h EXCEPT ![o].bad = @ \ invalid_keys]
    IN IF h1[o].items # 0 THEN clean_schema_object(h1, h1[o].items) ELSE h1

(***************************************************************************)
(* rewrite_refs_recursive, one call per step.  The pending calls are a     *)
(* stack of tasks:                                                         *)
(*   visit   a call on a dictionary that carries a schema, at a depth of   *)
(*           recursion                                                     *)
(*   resume  the rest of a call whose recursive call on the hoisted entry  *)
(*           (line 104 or 114) has returned: line 105 or 115, then the     *)
(*           loop of lines 117-118                                         *)
(*   table   the call on components.schemas, reached after the paths       *)
(* A resolution is the record [heap, schemas, stack, error] of the heap,   *)
(* the schema table of the document, the pending calls, and whether the    *)
(* interpreter's recursion limit was hit.                                  *)
(***************************************************************************)
\* the depth of recursion at which the interpreter raises RecursionError
MaxDepth == 24

VisitTask(o, d) == [op |-> "visit", obj |-> o, name |-> "", depth |-> d]

ResumeTask(o, schema_name, d) == [op |-> "resume", obj |-> o, name |-> schema_name, depth |-> d]

TableTask == [op |-> "table", obj |-> 0, name |-> "", depth |-> 3]

\* obj['$ref'].startswith('#/definitions/')
IsDefinitionsRef(ref) == Len(ref) >= 3 /\ ref[1] = "#" /\ ref[2] = "definitions"

\* f"#/components/schemas/{schema_name}"
ComponentRef(schema_name) == <<"#", "components", "schemas", schema_name>>

\* line 93: the reference has the first shape, .../<resource>/definitions/<name>
FirstShape(parts) == Len(parts) >= 5 /\ parts[4] = "definitions"

\* lines 95 and 108
SchemaName(parts) == IF FirstShape(parts) THEN parts[5] ELSE parts[Len(parts)]

\* a resolver that never finds a name in the table
HoistedNever(schemas, schema_name) == FALSE

\* lines 96 and 109: schema_name in service_spec['components']['schemas']
Hoisted(schemas, schema_name) == Has(schemas, schema_name)

\* a resolver that does not enter the name before it recurses
RegisterNothing(schemas, schema_name, entry) == schemas

\* lines 102 and 112: service_spec['components']['schemas'][schema_name] = schema_def
Register(schemas, schema_name, entry) == Put(schemas, schema_name, entry)

\* lines 97-99: the object the first shape of reference names, or 0
LocalTarget(h, resource_name, schema_name) ==
    LET i == ResourceIndex(resource_name)
    IN IF i # 0 /\ "definitions" \in h[Definitions[i].body].bad
          /\ Has(Definitions[i].definitions, schema_name)
       THEN Get(Definitions[i].definitions, schema_name) ELSE 0

\* line 110: the object the second shape of reference names, or 0
TopTarget(schema_name) ==
    LET i == ResourceIndex(schema_name)
    IN IF i # 0 THEN Definitions[i].body ELSE 0

NewId(h) == Cardinality(DOMAIN h) + 1

\* lines 101 and 111: the object that becomes the table's entry, and the heap
\* that holds it.  The first shape takes the object of heroku_schema itself;
\* the second takes dict(...), a new dictionary with the same values.
SchemaDef(h, case1, target) ==
    IF case1 THEN [entry |-> target, heap |-> h]
    ELSE [entry |-> NewId(h), heap |-> h @@ (NewId(h) :> h[target])]

\* lines 117-122: the calls on the values of a dictionary; the call on the
\* list under 'anyOf' calls on each of its elements
Children(h, o, d) ==
    (IF h[o].items # 0 THEN <<VisitTask(h[o].items, d + 1)>> ELSE <<>>)
    \o [i \in DOMAIN h[o].anyOf |-> VisitTask(h[o].anyOf[i], d + 2)]

\* a resolver that does not recurse into the entry it hoisted
HoistCallsNoRecursion(entry, o, schema_name, d) == <<ResumeTask(o, schema_name, d)>>

\* lines 104 and 114 followed by the rest of the caller
HoistCalls(entry, o, schema_name, d) ==
    <<VisitTask(entry, d + 1), ResumeTask(o, schema_name, d)>>

\* lines 105 and 115, then lines 117-118
Resume(st, o, schema_name, d) ==
    LET h1 == [st.heap EXCEPT ![o].ref = ComponentRef(schema_name)]
    IN [st EXCEPT !.heap = h1, !.stack = Children(h1, o, d) \o Tail(st.stack)]

\* lines 87-118 up to the first recursive call
Visit(st, t) ==
    LET h == st.heap
        o == t.obj
        parts == h[o].ref
        case1 == FirstShape(parts)
        schema_name == SchemaName(parts)
        target == IF case1 THEN LocalTarget(h, parts[3], schema_name)
                  ELSE TopTarget(schema_name)
        def == SchemaDef(h, case1, target)
    IN IF t.depth > MaxDepth THEN [st EXCEPT !.error = TRUE, !.stack = <<>>]
       ELSE IF ~IsDefinitionsRef(parts)
       THEN [st EXCEPT !.stack = Children(h, o, t.depth) \o Tail(st.stack)]
       ELSE IF ~Hoisted(st.schemas, schema_name) /\ target # 0
       THEN [heap |-> clean_schema_object(def.heap, def.entry),
             schemas |-> Register(st.schemas, schema_name, def.entry),
             stack |-> HoistCalls(def.entry, o, schema_name, t.depth) \o Tail(st.stack),
             error |-> FALSE]
       ELSE Resume(st, o, schema_name, t.depth)

\* the call on components.schemas: list(obj.items()) as it is at that time
Table(st, t) ==
    [st EXCEPT !.stack = [i \in DOMAIN st.schemas |->
                             VisitTask(st.schemas[i].value, t.depth + 1)]
                         \o Tail(st.stack)]

rewrite_refs_recursive(st) ==
    LET t == Head(st.stack)
    IN CASE t.op = "visit" -> Visit(st, t)
         [] t.op = "resume" -> Resume(st, t.obj, t.name, t.depth)
         [] t.op = "table" -> Table(st, t)

\* the calls that rewrite_refs_recursive(spec, spec, heroku_schema) makes on
\* the schemas of the operations, in the order of the dictionaries, and then
\* on components.schemas
RECURSIVE MethodCalls(_)
MethodCalls(methods) ==
    IF methods = <<>> THEN <<>>
    ELSE LET op == Head(methods).value
         IN (IF op.responses.schema # 0 THEN <<VisitTask(op.responses.schema, 9)>> ELSE <<>>)
            \o (IF op.requestBody # 0 THEN <<VisitTask(op.requestBody, 8)>> ELSE <<>>)
            \o MethodCalls(Tail(methods))

RECURSIVE PathCalls(_)
PathCalls(paths) ==
    IF paths = <<>> THEN <<>>
    ELSE MethodCalls(Head(paths).value) \o PathCalls(Tail(paths))

RootCalls(spec) == PathCalls(spec.paths) \o <<TableTask>>

(***************************************************************************)
(* The x-stackQL-resources block (lines 207-228).                          *)
(***************************************************************************)
SqlVerbs == {"select", "insert", "update", "delete", "exec"}

\* path.replace("/", "~1")
path_ref(path) == join(split(path, "/"), <<"~", "1">>)

\* res_name.replace('-', ' ').title()
title(name) ==
    LET spaced == [i \in DOMAIN name |-> IF name[i] = "-" THEN " " ELSE name[i]]
        Letter(c) == c \in Range(Lowers) \cup Range(Uppers)
    IN [i \in DOMAIN spaced |->
           IF i = 1 \/ ~Letter(spaced[i - 1]) THEN UpperChar(spaced[i])
           ELSE LowerChar(spaced[i])]

\* lines 212-216
NewResource(service_name, res_name) ==
    [id |-> <<PROVIDER_NAME, service_name, res_name>>,
     name |-> res_name,
     title |-> title(Chars[res_name]),
     methods |-> <<>>,
     sqlVerbs |-> [v \in SqlVerbs |-> <<>>]]

\* lines 218-222: resources[res_name]['methods'][meth_name] = {...}
SetMethod(methods, meth_name, path, verb, op) ==
    Put(methods, meth_name,
        [operation |-> <<path_ref(path), verb>>,
         response |-> [mediaType |-> "application/json",
                       openAPIDocKey |-> op.responses.code]])

\* lines 224-226
AddVerb(sqlVerbs, sql_verb, method_ref) ==
    IF sql_verb \in DOMAIN sqlVerbs
    THEN [sqlVerbs EXCEPT ![sql_verb] = Append(@, method_ref)]
    ELSE sqlVerbs

\* lines 211-226 for the operation at (path, verb)
IndexOperation(resources, service_name, path, verb, op) ==
    LET res_name == op.resource
        meth_name == op.method
        sql_verb == op.verb
        r0 == IF Has(resources, res_name) THEN Get(resources, res_name)
              ELSE NewResource(service_name, res_name)
        r1 == [r0 EXCEPT !.methods = SetMethod(@, meth_name, path, verb, op),
                         !.sqlVerbs = AddVerb(@, sql_verb, <<res_name, meth_name>>)]
    IN Put(resources, res_name, r1)

RECURSIVE IndexMethods(_, _, _, _)
IndexMethods(resources, service_name, path, methods) ==
    IF methods = <<>> THEN resources
    ELSE IndexMethods(IndexOperation(resources, service_name, path,
                                     Head(methods).key, Head(methods).value),
                      service_name, path, Tail(methods))

RECURSIVE IndexPaths(_, _, _)
IndexPaths(resources, service_name, paths) ==
    IF paths = <<>> THEN resources
    ELSE IndexPaths(IndexMethods(resources, service_name, Head(paths).key, Head(paths).value),
                    service_name, Tail(paths))

\* lines 208-228
WithResources(service_name, spec) ==
    [spec EXCEPT !.resources = IndexPaths(<<>>, service_name, spec.paths),
                 !.indexed = TRUE]

(***************************************************************************)
(* Input documents.                                                        *)
(***************************************************************************)
Node(ref, bad, items, anyOf) == [ref |-> ref, bad |-> bad, items |-> items, anyOf |-> anyOf]

Link(href, method, rel, ttl, schema, targetSchema) ==
    [href |-> href, method |-> method, rel |-> rel, title |-> ttl,
     schema |-> schema, targetSchema |-> targetSchema]

Resource(name, body, definitions, links) ==
    [name |-> name, body |-> body, definitions |-> definitions, links |-> links]

Entry(k, v) == [key |-> k, value |-> v]

W_definitions == <<"d","e","f","i","n","i","t","i","o","n","s">>
W_id == <<"i","d">>
W_name == <<"n","a","m","e">>
W_apps == <<"/","a","p","p","s">>
W_builds == <<"/","b","u","i","l","d","s">>
Enc_hash == <<"%","2","3">>
Enc_slash == <<"%","2","F">>

\* the percent-encoded pointer #/definitions/<resource>/definitions/<name>
Pointer(resource, name) ==
    Enc_hash \o Enc_slash \o W_definitions \o Enc_slash \o resource
    \o Enc_slash \o W_definitions \o Enc_slash \o name

Placeholder(pointer) == <<"/", "{", "(">> \o pointer \o <<")", "}">>

GET == <<"G","E","T">>
POST == <<"P","O","S","T">>
PATCH == <<"P","A","T","C","H">>
DELETE == <<"D","E","L","E","T","E">>
T_Info == <<"I","n","f","o">>
T_List == <<"L","i","s","t">>
T_Create == <<"C","r","e","a","t","e">>
T_Update == <<"U","p","d","a","t","e">>
T_Delete == <<"D","e","l","e","t","e">>
R_empty == <<"e","m","p","t","y">>

P_app == <<"#", "definitions", "app">>
P_app_id == <<"#", "definitions", "app", "definitions", "id">>
P_build == <<"#", "definitions", "build">>
P_build_id == <<"#", "definitions", "build", "definitions", "id">>
P_missing == <<"#", "definitions", "missing">>
P_app_missing == <<"#", "definitions", "app", "definitions", "missing">>

(***************************************************************************)
(* Documents with references.  Resource app (service apps) has a nested    *)
(* schema (object 2), a local definition id (object 3) with a list of one  *)
(* schema (object 4), and two links; resource build (service builds) has a *)
(* local definition id (object 8) and one link.  The '$ref' of the link    *)
(* schemas (5, 6, 9) and of the nested schemas (2, 4, 8) vary: references  *)
(* of both shapes, to definitions that exist or not, into the resource     *)
(* itself (cycles) or into the other service's resource.                   *)
(***************************************************************************)
RefsFile(r2, r4, r5, r6, r8, r9) ==
    [objects |->
        <<Node(<<>>, {"links", "definitions", "title", "stability"}, 2, <<>>),
          Node(r2, {"example"}, 0, <<>>),
          Node(<<>>, {"example"}, 0, <<4>>),
          Node(r4, {"title"}, 0, <<>>),
          Node(r5, {}, 0, <<>>),
          Node(r6, {}, 0, <<>>),
          Node(<<>>, {"links", "definitions", "title"}, 0, <<>>),
          Node(r8, {"title"}, 0, <<>>),
          Node(r9, {}, 0, <<>>)>>,
     definitions |->
        <<Resource("app", 1, <<Entry("id", 3)>>,
                   <<Link(W_apps \o Placeholder(Pointer(Chars["app"], W_id)),
                          GET, <<R_self>>, <<T_Info>>, 0, 5),
                     Link(W_apps, POST, <<R_create>>, <<T_Create>>, 6, 0)>>),
          Resource("build", 7, <<Entry("id", 8)>>,
                   <<Link(W_builds, GET, <<R_instances>>, <<T_List>>, 0, 9)>>)>>]

RefsFiles ==
    {RefsFile(r2, r4, r5, r6, r8, r9) :
        r2 \in {<<>>, P_app, P_app_id, P_build_id},
        r4 \in {<<>>, P_app_id, P_app, P_build, P_build_id},
        r5 \in {P_app, P_app_id},
        r6 \in {P_app, P_build_id, P_missing},
        r8 \in {<<>>, P_app_id, P_build},
        r9 \in {P_app_id, P_build_id, P_app_missing}}

(***************************************************************************)
(* Documents with links.  Resource app has up to MaxLinks links drawn from *)
(* LinkPool; resource team-app, of the same service, has none or one.      *)
(***************************************************************************)
MaxLinks == 2

LinkPool ==
    {Link(W_apps, POST, <<R_create>>, <<T_Create>>, 0, 0),
     Link(W_apps \o Placeholder(Pointer(Chars["app"], W_id)),
          DELETE, <<R_destroy>>, <<T_Delete>>, 0, 0),
     Link(W_apps \o Placeholder(Pointer(Chars["app"], W_id)),
          GET, <<R_self>>, <<T_Info>>, 0, 0),
     Link(W_apps, GET, <<R_instances>>, <<T_List>>, 0, 0),
     Link(W_apps \o Placeholder(Pointer(Chars["app"], W_id)),
          PATCH, <<R_update>>, <<T_Update>>, 0, 0),
     Link(W_apps, DELETE, <<R_delete>>, <<>>, 0, 0),
     Link(W_apps \o Placeholder(Pointer(Chars["app"], W_id)),
          POST, <<R_empty>>, <<>>, 0, 0),
     Link(W_apps \o Placeholder(Pointer(Chars["app"], W_id)),
          GET, <<>>, <<>>, 0, 0),
     Link(W_apps \o Placeholder(Pointer(Chars["app"], W_name)),
          GET, <<R_self>>, <<T_Info>>, 0, 0)}

LinksFile(links, more) ==
    [objects |->
        <<Node(<<>>, IF links = <<>> THEN {"title"} ELSE {"links", "title"}, 0, <<>>),
          Node(<<>>, IF more = <<>> THEN {"title"} ELSE {"links", "title"}, 0, <<>>)>>,
     definitions |->
        <<Resource("app", 1, <<>>, links), Resource("team-app", 2, <<>>, more)>>]

LinksFiles ==
    {LinksFile(links, more) :
        links \in UNION {[1..n -> LinkPool] : n \in 0..MaxLinks},
        more \in {<<>>,
                  <<Link(W_apps \o Placeholder(Pointer(Chars["team-app"], W_id)),
                         GET, <<R_self>>, <<T_Info>>, 0, 0)>>}}

(***************************************************************************)
(* Documents with one link whose href is up to MaxPieces pieces: literal   *)
(* text, and placeholders whose pointers are encoded or not, have one or   *)
(* five segments, and name the same parameter or different ones.           *)
(***************************************************************************)
MaxPieces == 3

HrefPieces ==
    {W_apps,
     Placeholder(Pointer(Chars["app"], W_id)),
     Placeholder(Pointer(Chars["app"], W_name)),
     Placeholder(Pointer(Chars["team-app"], W_id)),
     Placeholder(<<"#", "/">> \o W_definitions \o <<"/">> \o Chars["app"] \o <<"/">>
                 \o W_definitions \o <<"/">> \o W_id),
     Placeholder(W_id),
     Placeholder(Pointer(Chars["app"], <<"%", "2", "8">> \o W_id))}

HrefsFile(pieces) ==
    [objects |-> <<Node(<<>>, {"links", "title"}, 0, <<>>)>>,
     definitions |->
        <<Resource("app", 1, <<>>,
                   <<Link(Concat(pieces), GET, <<R_self>>, <<T_Info>>, 0, 0)>>)>>]

HrefsFiles ==
    {HrefsFile(pieces) : pieces \in UNION {[1..n -> HrefPieces] : n \in 1..MaxPieces}}

(***************************************************************************)
(* process_heroku_schema.                                                  *)
(***************************************************************************)
\* how many times a finished document is resolved again
MaxRuns == 1

\* the state after json.load (lines 133-136)
Loaded(file) ==
    /\ schema_file = file
    /\ heap = file.objects
    /\ service_specs = <<>>
    /\ pc = "assemble"
    /\ res = 1
    /\ svc = 1
    /\ stack = <<>>
    /\ runs = 0

Init == \E file \in RefsFiles : Loaded(file)

InitLinks == \E file \in LinksFiles : Loaded(file)

InitHrefs == \E file \in HrefsFiles : Loaded(file)

\* one pass of the loop of line 138
AssembleResource ==
    /\ pc = "assemble"
    /\ service_specs' = AssembleOne(service_specs, heap, Definitions[res])
    /\ res' = res + 1
    /\ pc' = IF res = Len(Definitions) THEN "resolve" ELSE "assemble"
    /\ UNCHANGED <<schema_file, heap, svc, stack, runs>>

\* line 205: the call on the document of the service the loop is at
BeginService ==
    /\ pc = "resolve"
    /\ stack' = RootCalls(service_specs[svc].value)
    /\ pc' = "walk"
    /\ UNCHANGED <<schema_file, heap, service_specs, res, svc, runs>>

\* the resolution in progress
Resolution ==
    [heap |-> heap, schemas |-> service_specs[svc].value.schemas,
     stack |-> stack, error |-> FALSE]

\* one call of rewrite_refs_recursive
RewriteStep ==
    /\ pc \in {"walk", "rewalk"}
    /\ stack # <<>>
    /\ LET st == rewrite_refs_recursive(Resolution)
       IN /\ heap' = st.heap
          /\ service_specs' = [service_specs EXCEPT ![svc].value.schemas = st.schemas]
          /\ stack' = st.stack
          /\ pc' = IF st.error THEN "RecursionError"
                   ELSE IF pc = "rewalk" /\ st.stack = <<>> THEN "done"
                   ELSE pc
    /\ UNCHANGED <<schema_file, res, svc, runs>>

\* lines 207-228, and the step of the loop of line 203
BuildResources ==
    /\ pc = "walk"
    /\ stack = <<>>
    /\ service_specs' = [service_specs EXCEPT
                            ![svc].value = WithResources(service_specs[svc].key, @)]
    /\ svc' = svc + 1
    /\ pc' = IF svc = Len(service_specs) THEN "done" ELSE "resolve"
    /\ UNCHANGED <<schema_file, heap, res, stack, runs>>

\* rewrite_refs_recursive called once more on the finished document s
Rerun(s) ==
    /\ pc = "done"
    /\ runs < MaxRuns
    /\ runs' = runs + 1
    /\ svc' = s
    /\ stack' = RootCalls(service_specs[s].value)
    /\ pc' = "rewalk"
    /\ UNCHANGED <<schema_file, heap, service_specs, res>>

Next ==
    \/ AssembleResource
    \/ BeginService
    \/ RewriteStep
    \/ BuildResources
    \/ \E s \in DOMAIN service_specs : Rerun(s)

Spec == Init /\ [][Next]_vars

SpecLinks == InitLinks /\ [][Next]_vars

SpecHrefs == InitHrefs /\ [][Next]_vars

\* the scheduling of a sequential program: once the loop of line 203 is
\* reached, the step it can take is taken
FairSpec ==
    /\ Init /\ [][Next]_vars
    /\ WF_vars(BeginService) /\ WF_vars(RewriteStep) /\ WF_vars(BuildResources)

(***************************************************************************)
(* What the properties below speak of.                                     *)
(***************************************************************************)
\* the objects reachable from a set of objects through 'items' and 'anyOf'
RECURSIVE Reach(_, _)
Reach(h, S) ==
    LET T == S \cup {h[o].items : o \in {x \in S : h[x].items # 0}}
               \cup UNION {Range(h[o].anyOf) : o \in S}
    IN IF T = S THEN S ELSE Reach(h, T)

\* the operations of a document, each with its path and its method key
Operations(spec) ==
    UNION {{[path |-> spec.paths[i].key,
             method |-> spec.paths[i].value[j].key,
             operation |-> spec.paths[i].value[j].value] :
               j \in DOMAIN spec.paths[i].value} : i \in DOMAIN spec.paths}

\* the schemas attached to the operations of a document
OperationSchemas(spec) ==
    {o.operation.responses.schema : o \in Operations(spec)}
    \cup {o.operation.requestBody : o \in Operations(spec)}

\* every schema object of a document: those of its operations and of its table
DocumentObjects(h, spec) ==
    Reach(h, (OperationSchemas(spec) \ {0}) \cup {spec.schemas[i].value : i \in DOMAIN spec.schemas})

\* the definition a reference of the input names exists in the input
TargetExists(ref) ==
    IF Len(ref) >= 5 /\ ref[4] = "definitions"
    THEN /\ ResourceIndex(ref[3]) # 0
         /\ Has(Definitions[ResourceIndex(ref[3])].definitions, ref[5])
    ELSE ResourceIndex(ref[Len(ref)]) # 0

\* the object of the input a reference of the input names (0: none)
TargetObject(ref) ==
    IF ~TargetExists(ref) THEN 0
    ELSE IF Len(ref) >= 5 /\ ref[4] = "definitions"
    THEN Get(Definitions[ResourceIndex(ref[3])].definitions, ref[5])
    ELSE Definitions[ResourceIndex(ref[Len(ref)])].body

Documents == DOMAIN service_specs

Doc(k) == service_specs[k].value

(***************************************************************************)
(* C1.  Reference closure: once every document is resolved, every '$ref'   *)
(* of a document whose target exists in the input names an entry of that   *)
(* document's own table, and none starts with '#/definitions/'.            *)
(***************************************************************************)
RefClosed(k, o) ==
    LET ref == heap[o].ref
    IN ref # <<>> =>
          /\ ~IsDefinitionsRef(ref)
          /\ \E n \in Keys(Doc(k).schemas) : ref = ComponentRef(n)

C1_ReferenceClosure ==
    pc = "done" =>
        \A k \in Documents :
            \A o \in DocumentObjects(heap, Doc(k)) \cap InputIds :
                (schema_file.objects[o].ref # <<>> /\ TargetExists(schema_file.objects[o].ref))
                    => RefClosed(k, o)

(***************************************************************************)
(* C7.  The input document is read-only: the objects loaded from the file  *)
(* are at all times what the file holds.                                   *)
(***************************************************************************)
C7_InputReadOnly == \A o \in InputIds : heroku_schema[o] = schema_file.objects[o]

(***************************************************************************)
(* C10.  A hoisted entry holds no denylisted key at any depth, through     *)
(* object values and through elements of lists.                            *)
(***************************************************************************)
C10_EntriesClean ==
    \A k \in Documents :
        \A i \in DOMAIN Doc(k).schemas :
            \A o \in Reach(heap, {Doc(k).schemas[i].value}) :
                heap[o].bad \cap invalid_keys = {}

(***************************************************************************)
(* C8.  Documents share no mutable state: the resolved document of a       *)
(* service is what resolving it alone, straight after the assembly, gives. *)
(***************************************************************************)
\* a schema as a value: its '$ref', its denylisted keys, and the values under
\* 'items' and 'anyOf'
RECURSIVE SchemaValue(_, _)
SchemaValue(h, o) ==
    <<h[o].ref, h[o].bad,
      IF h[o].items = 0 THEN <<>> ELSE <<SchemaValue(h, h[o].items)>>,
      [i \in DOMAIN h[o].anyOf |-> SchemaValue(h, h[o].anyOf[i])]>>

\* what a document says: the schemas of its operations and its table
DocumentValue(h, spec, schemas) ==
    [operations |->
        {<<o.path, o.method,
           IF o.operation.responses.schema = 0 THEN <<>>
           ELSE <<SchemaValue(h, o.operation.responses.schema)>>,
           IF o.operation.requestBody = 0 THEN <<>>
           ELSE <<SchemaValue(h, o.operation.requestBody)>>>> : o \in Operations(spec)},
     schemas |-> [i \in DOMAIN schemas |-> <<schemas[i].key, SchemaValue(h, schemas[i].value)>>]]

\* a resolution run to its end
RECURSIVE Resolved(_)
Resolved(st) ==
    IF st.stack = <<>> \/ st.error THEN st ELSE Resolved(rewrite_refs_recursive(st))

\* the resolution of document k alone, from the heap as loaded
ResolvedAlone(k) ==
    Resolved([heap |-> schema_file.objects, schemas |-> <<>>,
              stack |-> RootCalls(Doc(k)), error |-> FALSE])

C8_DocumentsIndependent ==
    pc = "done" =>
        \A k \in Documents :
            DocumentValue(heap, Doc(k), Doc(k).schemas)
              = DocumentValue(ResolvedAlone(k).heap, Doc(k), ResolvedAlone(k).schemas)

(***************************************************************************)
(* C2.  Resource index completeness: every operation stored at (path,      *)
(* method) has one entry in methods, under its resource and its logical    *)
(* method name, whose operation reference is that (path, method), and one  *)
(* reference to it in the five sqlVerbs buckets of the resource together.  *)
(***************************************************************************)
\* how many elements of a sequence equal x
Count(seq, x) == Cardinality({i \in DOMAIN seq : seq[i] = x})

RECURSIVE Sum(_, _)
Sum(f, S) ==
    IF S = {} THEN 0
    ELSE LET x == CHOOSE y \in S : TRUE IN f[x] + Sum(f, S \ {x})

Indexed(spec, o) ==
    LET op == o.operation
    IN /\ Has(spec.resources, op.resource)
       /\ LET r == Get(spec.resources, op.resource)
          IN /\ Count([i \in DOMAIN r.methods |-> r.methods[i].key], op.method) = 1
             /\ Get(r.methods, op.method).operation = <<path_ref(o.path), o.method>>
             /\ Sum([v \in SqlVerbs |-> Count(r.sqlVerbs[v], <<op.resource, op.method>>)],
                    SqlVerbs) = 1

C2_IndexComplete ==
    \A k \in Documents :
        Doc(k).indexed => \A o \in Operations(Doc(k)) : Indexed(Doc(k), o)

(***************************************************************************)
(* C3.  Insert-once, first insertion wins: an entry of a table is never    *)
(* replaced or removed; a call on an object whose reference names a name   *)
(* already in the table only rewrites that '$ref' and goes on to the       *)
(* object's own values, with no new copy and no call on the entry; and at  *)
(* the end two operations that referred to one top-level definition name   *)
(* point at the one entry of that name.                                    *)
(***************************************************************************)
EntriesKept ==
    \A k \in Documents :
        \A i \in DOMAIN Doc(k).schemas :
            /\ i \in DOMAIN service_specs'[k].value.schemas
            /\ service_specs'[k].value.schemas[i] = Doc(k).schemas[i]

LaterReference ==
    /\ pc \in {"walk", "rewalk"}
    /\ stack # <<>>
    /\ Head(stack).op = "visit"
    /\ IsDefinitionsRef(heap[Head(stack).obj].ref)
    /\ Has(Doc(svc).schemas, SchemaName(heap[Head(stack).obj].ref))

OnlyRewrites ==
    LET t == Head(stack)
        rewritten == [heap EXCEPT ![t.obj].ref = ComponentRef(SchemaName(heap[t.obj].ref))]
    IN /\ heap' = rewritten
       /\ service_specs' = service_specs
       /\ stack' = Children(rewritten, t.obj, t.depth) \o Tail(stack)

\* the schemas of two operations of document k referred to the top-level name n
SameTopLevelName(k, a, b, n) ==
    /\ a # b
    /\ {a, b} \subseteq OperationSchemas(Doc(k)) \ {0}
    /\ schema_file.objects[a].ref = <<"#", "definitions", n>>
    /\ schema_file.objects[b].ref = <<"#", "definitions", n>>
    /\ ResourceIndex(n) # 0

OneEntryForBoth ==
    \A k \in Documents : \A a, b \in InputIds : \A n \in DOMAIN Chars :
        SameTopLevelName(k, a, b, n) =>
            /\ Count([i \in DOMAIN Doc(k).schemas |-> Doc(k).schemas[i].key], n) = 1
            /\ heap[a].ref = ComponentRef(n)
            /\ heap[b].ref = ComponentRef(n)

InsertOnceStep == EntriesKept /\ (LaterReference => OnlyRewrites)

C3_InsertOnce ==
    /\ [][InsertOnceStep]_vars
    /\ [](pc = "done" => OneEntryForBoth)

C3_Witness ==
    /\ pc = "done"
    /\ \E k \in Documents : \E a, b \in InputIds :
          SameTopLevelName(k, a, b, "app") /\ Has(Doc(k).schemas, "app")

(***************************************************************************)
(* C5.  Idempotent hoisting: resolving a resolved document once more       *)
(* changes no table and no schema object.                                  *)
(***************************************************************************)
RerunChangesNothing ==
    pc \in {"done", "rewalk"} => (heap' = heap /\ service_specs' = service_specs)

C5_Idempotent == [][RerunChangesNothing]_vars

C5_Witness ==
    /\ pc = "done"
    /\ runs = 1
    /\ Len(Doc(svc).schemas) >= 2
    /\ \E o \in DocumentObjects(heap, Doc(svc)) : heap[o].ref # <<>>

(***************************************************************************)
(* C9.  As claimed: a self-referential or mutually recursive definition    *)
(* reachable from a document makes its resolution run without end, so the  *)
(* document never gets to the step after it.  As amended: the resolution   *)
(* of such a document ends.                                                *)
(***************************************************************************)
\* in the input: the objects an object leads to, through its values and
\* through the definition its reference names
Leads(o) ==
    LET n == schema_file.objects[o]
        t == IF IsDefinitionsRef(n.ref) THEN TargetObject(n.ref) ELSE 0
    IN ((IF n.items # 0 THEN {n.items} ELSE {}) \cup Range(n.anyOf) \cup {t}) \ {0}

RECURSIVE LeadsTo(_)
LeadsTo(S) ==
    LET T == S \cup UNION {Leads(o) : o \in S}
    IN IF T = S THEN S ELSE LeadsTo(T)

\* a definition that refers to itself, directly or through others, is
\* reachable from the operations of document k
CyclicReachable(k) ==
    \E o \in LeadsTo(OperationSchemas(Doc(k)) \ {0}) : o \in LeadsTo(Leads(o))

C9_CyclesDiverge == \A k \in Documents : CyclicReachable(k) => ~Doc(k).indexed

C9_CyclesTerminate ==
    (pc = "resolve" /\ \E k \in Documents : CyclicReachable(k)) ~> (pc = "done")

C9_Witness ==
    /\ pc = "done"
    /\ \E k \in Documents : CyclicReachable(k) /\ Doc(k).schemas # <<>>

(***************************************************************************)
(* The link an operation was built from: the last link of its resource     *)
(* with its method and its path (a later link with the same path and       *)
(* method replaces the operation of an earlier one, line 201).             *)
(***************************************************************************)
SourceLink(o) ==
    LET links == Definitions[ResourceIndex(o.operation.resource)].links
        from == {i \in DOMAIN links :
                    /\ lower(links[i].method) = o.method
                    /\ Parameterize(links[i].href).path = o.path}
    IN links[CHOOSE i \in from : \A j \in from : j <= i]

(***************************************************************************)
(* C4.  Per-path parameter uniqueness: the parameter list of an operation  *)
(* holds no name twice; every placeholder of the href became a {name}      *)
(* token; and the names of the tokens of the path, each at its first       *)
(* occurrence from the left, are the names of the list, in its order.      *)
(***************************************************************************)
\* the names of the {name} tokens of a path, from the left
Tokens(path) ==
    LET opens == {i \in DOMAIN path : path[i] = "{"}
        Nth(k) == CHOOSE p \in opens : Cardinality({q \in opens : q <= p}) = k
        Close(p) == First({j \in p..Len(path) : path[j] = "}"})
    IN [k \in 1..Cardinality(opens) |-> SubSeq(path, Nth(k) + 1, Close(Nth(k)) - 1)]

\* a sequence without the repetitions of its elements
FirstOccurrences(seq) ==
    LET firsts == {i \in DOMAIN seq : \A j \in 1..(i - 1) : seq[j] # seq[i]}
        Nth(k) == CHOOSE p \in firsts : Cardinality({q \in firsts : q <= p}) = k
    IN [k \in 1..Cardinality(firsts) |-> seq[Nth(k)]]

ParameterNames(o) ==
    [i \in DOMAIN o.operation.parameters |-> o.operation.parameters[i].name]

C4_ParametersUnique ==
    \A k \in Documents : \A o \in Operations(Doc(k)) :
        LET names == ParameterNames(o)
            tokens == Tokens(o.path)
        IN /\ \A i, j \in DOMAIN names : names[i] = names[j] => i = j
           /\ Len(tokens) = Count(SourceLink(o).href, "{")
           /\ FirstOccurrences(tokens) = names

C4_Witness ==
    \E k \in Documents : \E o \in Operations(Doc(k)) :
        /\ Len(ParameterNames(o)) = 2
        /\ Len(Tokens(o.path)) = 3
        /\ Tokens(o.path)[1] = Tokens(o.path)[3]

(***************************************************************************)
(* C6.  The verb of every operation is one of the five, and it is the one  *)
(* the mapping gives for the rel of its link; a link without a rel gives   *)
(* exec.                                                                   *)
(***************************************************************************)
VerbOfRel ==
    {<<R_instances, "select">>, <<R_self, "select">>, <<R_create, "insert">>,
     <<R_update, "update">>, <<R_destroy, "delete">>, <<R_delete, "delete">>}

ExpectedVerb(rel) ==
    IF rel # <<>> /\ \E m \in VerbOfRel : m[1] = rel[1]
    THEN (CHOOSE m \in VerbOfRel : m[1] = rel[1])[2]
    ELSE "exec"

C6_VerbTotal ==
    \A k \in Documents : \A o \in Operations(Doc(k)) :
        /\ o.operation.verb \in SqlVerbs
        /\ o.operation.verb = ExpectedVerb(SourceLink(o).rel)

C6_Witness ==
    /\ pc = "done"
    /\ {o.operation.verb : o \in Operations(Doc(1))} = {"exec", "delete"}
    /\ \E o \in Operations(Doc(1)) : SourceLink(o).rel = <<>>
    /\ \E o \in Operations(Doc(1)) : SourceLink(o).rel = <<R_delete>>

=============================================================================
